---- MODULE Spec2Model ----
(***************************************************************************)
(* Formlo backend (backend/server.py): the upload pipeline that turns an   *)
(* uploaded document into a Google Form, with the processing_jobs and      *)
(* generated_forms collections, the text-generation backend and the form   *)
(* provider as the collaborators it talks to.                              *)
(*                                                                         *)
(* Every request handler is a coroutine: it runs without interruption from *)
(* one await to the next, so each action below is the code between two     *)
(* suspension points together with the awaited operation's effect.         *)
(* create_google_form has no await inside (the provider calls are blocking *)
(* .execute() calls), so it is one step.                                   *)
(***************************************************************************)
EXTENDS Integers, Sequences, FiniteSets, TLC

\* Number of upload requests the model follows (they may run concurrently).
MaxRuns == 2

Runs == 1..MaxRuns

\* Longest question list, and longest backend response in tokens, given
\* directly to the question mapper and to the response parser.
MaxQuestions == 2
MaxTokens == 4

\* Number of auth callbacks.
MaxCallbacks == 2

\* Number of upload requests followed together with an environment (callers
\* of the other operations, abandoned runs, failing persistence).
MaxTrackedRuns == 1

\* Python's Optional[...]: None is the empty sequence, a value v is <<v>>.
None == <<>>
Some(v) == <<v>>

\* A call's outcome: a returned value or a raised exception with its str(e).
Ok(v) == [ok |-> TRUE, val |-> <<v>>, err |-> ""]
Raise(msg) == [ok |-> FALSE, val |-> <<>>, err |-> msg]
Val(res) == res.val[1]

(***************************************************************************)
(* Strings the code inspects are sequences of one-character strings.       *)
(***************************************************************************)
LowerChar(c) ==
    CASE c = "T" -> "t"
      [] c = "X" -> "x"
      [] c = "P" -> "p"
      [] c = "D" -> "d"
      [] c = "F" -> "f"
      [] OTHER -> c

\* str.lower()
Lower(s) == [i \in 1..Len(s) |-> LowerChar(s[i])]

\* str.endswith(suffix)
EndsWith(s, suf) ==
    /\ Len(s) >= Len(suf)
    /\ SubSeq(s, Len(s) - Len(suf) + 1, Len(s)) = suf

\* Index of the last occurrence of c in s, 0 when there is none (rfind + 1).
RECURSIVE RFind(_, _)
RFind(s, c) ==
    IF s = <<>> THEN 0
    ELSE IF s[Len(s)] = c THEN Len(s)
    ELSE RFind(SubSeq(s, 1, Len(s) - 1), c)

\* Trailing path separators do not belong to any path component.
RECURSIVE DropTrailingSlashes(_)
DropTrailingSlashes(s) ==
    IF s # <<>> /\ s[Len(s)] = "/"
    THEN DropTrailingSlashes(SubSeq(s, 1, Len(s) - 1))
    ELSE s

\* PurePath(filename).name: the final path component.
PathName(s) ==
    LET t == DropTrailingSlashes(s)
    IN  SubSeq(t, RFind(t, "/") + 1, Len(t))

\* PurePath(filename).suffix: the final component's last dot and what follows,
\* empty when the dot leads or ends the component.
PathSuffix(s) ==
    LET name == PathName(s)
        i == RFind(name, ".")
    IN  IF 1 < i /\ i < Len(name) THEN SubSeq(name, i, Len(name)) ELSE <<>>

IsSpace(c) == c \in {" ", "\n"}

\* str.strip()
RECURSIVE LStrip(_)
LStrip(s) == IF s # <<>> /\ IsSpace(s[1]) THEN LStrip(Tail(s)) ELSE s

RECURSIVE RStrip(_)
RStrip(s) ==
    IF s # <<>> /\ IsSpace(s[Len(s)])
    THEN RStrip(SubSeq(s, 1, Len(s) - 1))
    ELSE s

Strip(s) == LStrip(RStrip(s))

EXT_PDF == <<".", "p", "d", "f">>
EXT_DOCX == <<".", "d", "o", "c", "x">>
EXT_TXT == <<".", "t", "x", "t">>

\* Variant of allowed_extensions that also lets executables through.
allowed_extensions_WithExe ==
    {EXT_PDF, EXT_DOCX, EXT_TXT, <<".", "e", "x", "e">>}

\* upload_document: allowed_extensions
allowed_extensions == {EXT_PDF, EXT_DOCX, EXT_TXT}

(***************************************************************************)
(* Inputs of an upload request.                                            *)
(***************************************************************************)
Users == {"u1", "u2"}

\* The auth callbacks, and the e-mail addresses the identity provider names.
Callbacks == 1..MaxCallbacks
Emails == {"ann@example.org", "bob@example.org"}

\* request.session.get('user') of the request: a user id, or None.
Sessions == {None} \cup {Some(u) : u \in Users}

Filenames == {"d.PDF", "d.pdf/", "f.exe", ".txt"}

\* The characters of a file name.
Chars(filename) ==
    CASE filename = "d.PDF" -> <<"d", ".", "P", "D", "F">>
      [] filename = "d.pdf/" -> <<"d", ".", "p", "d", "f", "/">>
      [] filename = "f.exe" -> <<"f", ".", "e", "x", "e">>
      [] filename = ".txt" -> <<".", "t", "x", "t">>
      [] OTHER -> <<>>

\* The uploaded bytes: whether the format's parser (PdfReader, Document,
\* utf-8 decode) accepts them, and the text it yields.
Contents ==
    { [parses |-> FALSE, chars |-> <<>>],
      [parses |-> TRUE, chars |-> <<" ">>],
      [parses |-> TRUE, chars |-> <<" ", "w", " ">>] }

\* extract_text_from_file
extract_text_from_file(filename, content) ==
    LET name == Lower(Chars(filename))
    IN  IF EndsWith(name, EXT_PDF)
        THEN IF content.parses
             THEN Ok(Strip(content.chars \o <<"\n">>))
             ELSE Raise("PdfReadError")
        ELSE IF EndsWith(name, EXT_DOCX)
        THEN IF content.parses
             THEN Ok(Strip(content.chars \o <<"\n">>))
             ELSE Raise("BadZipFile")
        ELSE IF EndsWith(name, EXT_TXT)
        THEN IF content.parses
             THEN Ok(Strip(content.chars))
             ELSE Raise("UnicodeDecodeError")
        ELSE Ok(Strip(<<>>))

(***************************************************************************)
(* The text-generation backend's response, as a sequence of tokens: "{",   *)
(* "}", "p" (prose without braces) and member tokens, each one key/value   *)
(* pair of a JSON object (separators included).  The member tokens Q1, Q2  *)
(* and Qbad hold question objects, and so braces of their own.             *)
(***************************************************************************)
Question(title, type, required, options) ==
    [title |-> title, type |-> type, required |-> required, options |-> options]

Q_RADIO == Question(Some("Pick a color"), Some("RADIO"), Some(TRUE),
                    Some(<<"red", "blue">>))
Q_SHORT == Question(Some("What is your name?"), Some("SHORT_ANSWER"),
                    Some(FALSE), None)
Q_NOTYPE == Question(Some("Untyped"), None, None, None)

\* A decoded JSON object, by the keys the code reads; a key the object does
\* not have is None.
EmptyDict == [form_title |-> None, form_description |-> None, questions |-> None]

MemberToks == {"T", "D", "Q0", "Q1", "Q2", "Qbad", "X"}

\* The object with the one member a token stands for.
MemberDict(tok) ==
    CASE tok = "T" -> [EmptyDict EXCEPT !.form_title = Some("Color quiz")]
      [] tok = "D" -> [EmptyDict EXCEPT !.form_description = Some("About colors")]
      [] tok = "Q0" -> [EmptyDict EXCEPT !.questions = Some(<<>>)]
      [] tok = "Q1" -> [EmptyDict EXCEPT !.questions = Some(<<Q_SHORT>>)]
      [] tok = "Q2" -> [EmptyDict EXCEPT !.questions = Some(<<Q_RADIO, Q_SHORT>>)]
      [] tok = "Qbad" -> [EmptyDict EXCEPT !.questions = Some(<<Q_NOTYPE>>)]
      [] OTHER -> EmptyDict

\* Number of question objects written inside a token.
InnerObjects(tok) ==
    CASE tok = "Q1" -> 1
      [] tok = "Q2" -> 2
      [] tok = "Qbad" -> 1
      [] OTHER -> 0

HasOpen(tok) == tok = "{" \/ InnerObjects(tok) > 0
HasClose(tok) == tok = "}" \/ InnerObjects(tok) > 0

\* dict.update: the keys of d2 override those of d1.
DictUpdate(d1, d2) ==
    [k \in DOMAIN d1 |-> IF d2[k] # None THEN d2[k] ELSE d1[k]]

RECURSIVE DictOfMembers(_)
DictOfMembers(toks) ==
    IF toks = <<>> THEN EmptyDict
    ELSE DictUpdate(DictOfMembers(SubSeq(toks, 1, Len(toks) - 1)),
                    MemberDict(toks[Len(toks)]))

\* Variant of RegexSearch with a non-greedy pattern: the span ends at the
\* first "}" after the first "{".
RegexSearch_NonGreedy(response) ==
    LET opens == {i \in 1..Len(response) : HasOpen(response[i])}
    IN  IF opens = {} THEN None
        ELSE LET i == CHOOSE x \in opens : \A y \in opens : x <= y
                 closes == {k \in i..Len(response) : HasClose(response[k])}
             IN  IF closes = {} THEN None
                 ELSE Some([from |-> i,
                            to |-> CHOOSE x \in closes : \A y \in closes : x <= y])

\* re.search(r'\{.*\}', response, re.DOTALL): from the first "{" to the last
\* "}" of the response; None when no "}" follows the first "{".
RegexSearch(response) ==
    LET opens == {i \in 1..Len(response) : HasOpen(response[i])}
        closes == {i \in 1..Len(response) : HasClose(response[i])}
    IN  IF opens = {} \/ closes = {} THEN None
        ELSE LET i == CHOOSE x \in opens : \A y \in opens : x <= y
                 j == CHOOSE x \in closes : \A y \in closes : x >= y
             IN  IF i <= j THEN Some([from |-> i, to |-> j]) ELSE None

\* json.loads of the matched span: the decoded object, or a JSONDecodeError.
\* The span decodes when it is one object: an outer brace pair around member
\* tokens only, or the single question object of one token.
JsonLoads(response, span) ==
    LET i == span.from
        j == span.to
        inner == SubSeq(response, i + 1, j - 1)
    IN  IF response[i] = "{" /\ response[j] = "}"
        THEN IF \A k \in 1..Len(inner) : inner[k] \in MemberToks
             THEN Ok(DictOfMembers(inner))
             ELSE Raise("JSONDecodeError")
        ELSE IF i = j /\ InnerObjects(response[i]) = 1
        THEN Ok(EmptyDict)
        ELSE Raise("JSONDecodeError")

\* analyze_text_with_llm: the fallback response of the except branch
FallbackResponse ==
    [form_title |-> Some("Extracted Questions Form"),
     form_description |-> Some("Questions extracted from uploaded document"),
     questions |-> Some(<<Question(
         Some("Please provide feedback on the document content"),
         Some("PARAGRAPH_TEXT"), Some(FALSE), None)>>)]

\* analyze_text_with_llm, from the backend's response on (the try block).
ParseResponse(response) ==
    LET json_match == RegexSearch(response)
    IN  IF json_match # None
        THEN LET decoded == JsonLoads(response, json_match[1])
             IN  IF decoded.ok THEN Val(decoded) ELSE FallbackResponse
        ELSE FallbackResponse

(***************************************************************************)
(* create_google_form: the question items and the provider calls.          *)
(***************************************************************************)
\* dict.get(key, default)
Get(opt, default) == IF opt # None THEN opt[1] ELSE default

OptionValues(options) == [k \in 1..Len(options) |-> [value |-> options[k]]]

ChoiceItem(question, type) ==
    [title |-> question.title[1],
     required |-> Get(question.required, FALSE),
     choiceQuestion |-> Some([type |-> type,
         options |-> OptionValues(Get(question.options, <<"Option 1", "Option 2">>))]),
     textQuestion |-> None]

\* Variant of TextItem that drops the question's required flag.
TextItem_NotRequired(question, paragraph) ==
    [title |-> question.title[1],
     required |-> FALSE,
     choiceQuestion |-> None,
     textQuestion |-> Some([paragraph |-> paragraph])]

TextItem(question, paragraph) ==
    [title |-> question.title[1],
     required |-> Get(question.required, FALSE),
     choiceQuestion |-> None,
     textQuestion |-> Some([paragraph |-> paragraph])]

\* Variant of QuestionItem that rejects a label it does not know.
QuestionItem_StrictLabels(question) ==
    IF question.type = None THEN Raise("'type'")
    ELSE IF question.title = None THEN Raise("'title'")
    ELSE IF question.type[1] = "RADIO" THEN Ok(ChoiceItem(question, "RADIO"))
    ELSE IF question.type[1] = "CHECKBOX" THEN Ok(ChoiceItem(question, "CHECKBOX"))
    ELSE IF question.type[1] = "SHORT_ANSWER" THEN Ok(TextItem(question, FALSE))
    ELSE IF question.type[1] = "PARAGRAPH_TEXT" THEN Ok(TextItem(question, TRUE))
    ELSE Raise("unknown question type")

\* The body of the loop over the questions: question_item, or the KeyError of
\* question["type"] or question["title"].
QuestionItem(question) ==
    IF question.type = None THEN Raise("'type'")
    ELSE IF question.title = None THEN Raise("'title'")
    ELSE IF question.type[1] = "RADIO" THEN Ok(ChoiceItem(question, "RADIO"))
    ELSE IF question.type[1] = "CHECKBOX" THEN Ok(ChoiceItem(question, "CHECKBOX"))
    ELSE IF question.type[1] = "SHORT_ANSWER" THEN Ok(TextItem(question, FALSE))
    ELSE Ok(TextItem(question, TRUE))

\* Variant of CreateItem that numbers the locations from one.
CreateItem_OneBased(item, i) ==
    [createItem |-> [item |-> item, location |-> [index |-> i + 1]]]

\* The createItem request of the question at zero-based position i.
CreateItem(item, i) == [createItem |-> [item |-> item, location |-> [index |-> i]]]

\* The loop: the list of requests, or the first KeyError.
RECURSIVE BuildRequests(_)
BuildRequests(questions) ==
    IF questions = <<>> THEN Ok(<<>>)
    ELSE LET n == Len(questions)
             before == BuildRequests(SubSeq(questions, 1, n - 1))
             item == QuestionItem(questions[n])
         IN  IF ~before.ok THEN before
             ELSE IF ~item.ok THEN item
             ELSE Ok(Append(Val(before), CreateItem(Val(item), n - 1)))

\* Variant of BatchUpdate that swallows the provider's error.
BatchUpdate_Swallowed(env, requests) ==
    IF requests = <<>> THEN [res |-> Ok("skipped"), batch |-> "none"]
    ELSE IF env = "batch_fails" THEN [res |-> Ok("ignored"), batch |-> "failed"]
    ELSE [res |-> Ok("ack"), batch |-> "ok"]

\* Variant of BatchUpdate without the `if requests:` test.
BatchUpdate_AlwaysCalled(env, requests) ==
    IF env = "batch_fails"
    THEN [res |-> Raise("HttpError: forms.batchUpdate"), batch |-> "failed"]
    ELSE [res |-> Ok("ack"), batch |-> "ok"]

\* forms().batchUpdate(...).execute() under `if requests:`: skipped for an empty
\* list, else the provider's answer.  batch says how the call ended.
BatchUpdate(env, requests) ==
    IF requests = <<>> THEN [res |-> Ok("skipped"), batch |-> "none"]
    ELSE IF env = "batch_fails"
    THEN [res |-> Raise("HttpError: forms.batchUpdate"), batch |-> "failed"]
    ELSE [res |-> Ok("ack"), batch |-> "ok"]

\* How the provider answers during one call of create_google_form: both
\* calls succeed, forms.create raises, or forms.batchUpdate raises.
ProviderOutcomes == {"ok", "create_fails", "batch_fails"}

FormUrl(form_id) == <<"https://docs.google.com/forms/d/", form_id, "/edit">>

\* get_google_service: the service, or the error of credentials that are not
\* a service account's.
get_google_service(credentials) ==
    IF credentials THEN Ok("forms-v1") ELSE Raise("service account info error")

\* create_google_form(form_data) with the configured credentials, against a
\* provider that answers as `env` says and gives a created form the id
\* new_id.  res is what the function returns or raises; create and batch say
\* which provider calls were made and how they ended ("none", "ok",
\* "failed"); form is the form the provider holds afterwards, if it created
\* one.
create_google_form(form_data, credentials, env, new_id) ==
    LET NoCalls(res) ==
            [res |-> res, create |-> "none", batch |-> "none", form |-> None]
        service == get_google_service(credentials)
        body == [title |-> form_data.form_title[1],
                 description |-> Get(form_data.form_description, "")]
        Created(res, batch, items) ==
            [res |-> res, create |-> "ok", batch |-> batch,
             form |-> Some([formId |-> new_id, info |-> body, items |-> items])]
        requests == BuildRequests(form_data.questions[1])
        update == BatchUpdate(env, Val(requests))
        form_result == [form_id |-> new_id, form_url |-> FormUrl(new_id)]
    IN  IF ~service.ok THEN NoCalls(service)
        ELSE IF form_data.form_title = None THEN NoCalls(Raise("'form_title'"))
        ELSE IF env = "create_fails"
        THEN [res |-> Raise("HttpError: forms.create"), create |-> "failed",
              batch |-> "none", form |-> None]
        ELSE IF form_data.questions = None
        THEN Created(Raise("'questions'"), "none", <<>>)
        ELSE IF ~requests.ok THEN Created(requests, "none", <<>>)
        ELSE IF ~update.res.ok THEN Created(update.res, update.batch, <<>>)
        ELSE Created(Ok(form_result), update.batch,
                     IF update.batch = "ok" THEN Val(requests) ELSE <<>>)

(***************************************************************************)
(* The persistence collaborator: a collection is the list of its documents *)
(* in insertion order.                                                     *)
(***************************************************************************)
\* Variant of InsertOne that stores the document twice.
InsertOne_Twice(coll, doc) == Append(Append(coll, doc), doc)

\* collection.insert_one(doc)
InsertOne(coll, doc) == Append(coll, doc)

\* Variant of SetFields that writes a fresh document around the given fields:
\* progress falls back to its default.
SetFields_ResetsProgress(doc, fields) ==
    [k \in DOMAIN doc |-> IF k \in DOMAIN fields THEN fields[k]
                          ELSE IF k = "progress" THEN 0 ELSE doc[k]]

\* {"$set": fields} applied to a document: a merge of the given fields.
SetFields(doc, fields) ==
    [k \in DOMAIN doc |-> IF k \in DOMAIN fields THEN fields[k] ELSE doc[k]]

Matching(coll, id) == {i \in 1..Len(coll) : coll[i].id = id}

\* Variant of UpdateOne with an empty filter: the collection's first document.
UpdateOne_AnyDocument(coll, id, fields) ==
    IF coll = <<>> THEN coll
    ELSE [coll EXCEPT ![1] = SetFields(coll[1], fields)]

\* collection.update_one({"id": id}, {"$set": fields}): the first document
\* with that id, if there is one.
UpdateOne(coll, id, fields) ==
    IF Matching(coll, id) = {} THEN coll
    ELSE LET i == CHOOSE x \in Matching(coll, id) : \A y \in Matching(coll, id) : x <= y
         IN  [coll EXCEPT ![i] = SetFields(coll[i], fields)]

\* Variant of ProcessingJob whose id is not fresh per job.
ProcessingJob_SharedId(id, user_id, filename) ==
    [id |-> 1, user_id |-> user_id, filename |-> filename,
     status |-> "processing", progress |-> 0,
     error_message |-> None, form_id |-> None, created_at |-> id]

\* ProcessingJob(user_id, filename, status="processing") with its defaults;
\* the uuid4 of run r is r, and so is created_at, the time of construction.
ProcessingJob(id, user_id, filename) ==
    [id |-> id, user_id |-> user_id, filename |-> filename,
     status |-> "processing", progress |-> 0,
     error_message |-> None, form_id |-> None, created_at |-> id]

\* Variant of GeneratedForm that counts the keys of the analysis.
GeneratedForm_CountsKeys(id, user_id, filename, form_result, analysis) ==
    [id |-> id, user_id |-> user_id, original_filename |-> filename,
     form_id |-> form_result.form_id,
     form_title |-> analysis.form_title[1],
     form_url |-> form_result.form_url,
     questions_count |-> Cardinality({k \in DOMAIN analysis : analysis[k] # None}),
     processing_status |-> "completed"]

\* GeneratedForm(...) with its defaults
GeneratedForm(id, user_id, filename, form_result, analysis) ==
    [id |-> id, user_id |-> user_id, original_filename |-> filename,
     form_id |-> form_result.form_id,
     form_title |-> analysis.form_title[1],
     form_url |-> form_result.form_url,
     questions_count |-> Len(analysis.questions[1]),
     processing_status |-> "completed"]

\* Variants of the $set documents: the Analyzing update with the next stage's
\* progress, the CreatingForm update with the previous stage's status, the
\* Completed update without the form id, the Failed update with a progress
\* and without the message.
AnalyzingUpdate_Progress60 == [progress |-> 60, status |-> "analyzing"]
CreatingFormUpdate_StatusAnalyzing == [progress |-> 60, status |-> "analyzing"]
CompletedUpdate_NoFormId(form_result) == [progress |-> 100, status |-> "completed"]
FailedUpdate_Progress100(e) ==
    [status |-> "failed", error_message |-> Some(e), progress |-> 100]
FailedUpdate_NoMessage(e) == [status |-> "failed"]

\* Further variants: the Analyzing update that leaves the status, and the
\* CreatingForm update that already says Completed.
AnalyzingUpdate_StillProcessing == [progress |-> 30, status |-> "processing"]
CreatingFormUpdate_Completed == [progress |-> 100, status |-> "completed"]

\* The $set documents of upload_document's four updates.
AnalyzingUpdate == [progress |-> 30, status |-> "analyzing"]

CreatingFormUpdate == [progress |-> 60, status |-> "creating_form"]

CompletedUpdate(form_result) ==
    [progress |-> 100, status |-> "completed", form_id |-> Some(form_result.form_id)]

FailedUpdate(e) == [status |-> "failed", error_message |-> Some(e)]

\* Responses of the text-generation backend the model draws from: prose, an
\* object with two questions between prose, an object with no questions, and
\* an object without the "questions" member.
Responses ==
    { <<"p">>,
      <<"p", "{", "T", "D", "Q2", "}", "p">>,
      <<"{", "T", "Q0", "}">>,
      <<"{", "T", "D", "}">> }

VARIABLES
    pc,               \* where each upload request stands
    request,          \* each request's session user and file name
    frame,            \* the handler's local variables of each request
    response,         \* what each request's caller got back
    processing_jobs,  \* db.processing_jobs
    generated_forms,  \* db.generated_forms
    provider_forms,   \* the forms the form provider holds
    llm_key,          \* whether EMERGENT_LLM_KEY is configured
    credentials,      \* whether GOOGLE_CREDENTIALS holds a service account
    job_log,          \* per job id, the job's state after each write to it
    calls,            \* per request, the external calls made so far
    probe,            \* a direct call of the parser, the mapper or the extractor
    api,              \* the last call of another operation, with its response
    abandoned,        \* the requests whose caller gave up waiting
    users,            \* db.users
    callback          \* each auth callback: where it stands, its locals, its session

vars == <<pc, request, frame, response, processing_jobs, generated_forms,
          provider_forms, llm_key, credentials, job_log, calls, probe, api,
          abandoned, users, callback>>

NoRequest == [session |-> None, filename |-> ""]

\* The locals of upload_document; None while unassigned.
EmptyFrame ==
    [job |-> None, text |-> None, analysis |-> None, form_result |-> None, e |-> None]

NoCallsYet == [extract |-> None, llm |-> <<>>, create |-> "none", batch |-> "none",
               form_inserts |-> 0]

\* An auth callback that has not arrived.
NoCallback ==
    [pc |-> "start", user_data |-> None, existing_user |-> None, session |-> None]

\* No direct call: the pipeline alone runs.
NoProbe ==
    [raw |-> <<>>, questions |-> <<>>, file |-> None,
     parsed |-> None, published |-> None, extracted |-> None]

Init ==
    /\ pc = [r \in Runs |-> "start"]
    /\ request = [r \in Runs |-> NoRequest]
    /\ frame = [r \in Runs |-> EmptyFrame]
    /\ response = [r \in Runs |-> None]
    /\ processing_jobs = <<>>
    /\ generated_forms = <<>>
    /\ provider_forms = {}
    /\ llm_key \in BOOLEAN
    /\ credentials \in BOOLEAN
    /\ job_log = [r \in Runs |-> <<>>]
    /\ calls = [r \in Runs |-> NoCallsYet]
    /\ probe = NoProbe
    /\ api = None
    /\ abandoned = {}
    /\ users = <<>>
    /\ callback = [c \in Callbacks |-> NoCallback]

\* The document with the given id as it stands in the collection.
Doc(coll, id) == coll[CHOOSE i \in Matching(coll, id) : TRUE]

\* What a reader sees of a job document's state: the fields the updates set.
Seen(doc) ==
    [status |-> doc.status, progress |-> doc.progress,
     error_message |-> doc.error_message, form_id |-> doc.form_id]

\* job_log after a write that left processing_jobs as coll.
Logged(coll, id) ==
    IF Matching(coll, id) = {} THEN job_log
    ELSE [job_log EXCEPT ![id] = Append(@, Seen(Doc(coll, id)))]

\* What a caller gets back: the raised HTTPException, or the returned body.
HTTPException(status_code, detail) ==
    Some([status_code |-> status_code, detail |-> detail, body |-> None])
Returned(body) == Some([status_code |-> 200, detail |-> <<>>, body |-> Some(body)])

\* The handler of request r is over: its locals are gone.
Finish(r, resp) ==
    /\ pc' = [pc EXCEPT ![r] = "done"]
    /\ frame' = [frame EXCEPT ![r] = EmptyFrame]
    /\ response' = [response EXCEPT ![r] = resp]

\* Variant of require_auth that lets a request without a user through.
require_auth_Anonymous(session) ==
    IF session = None THEN Ok("anonymous") ELSE Ok(session[1])

\* require_auth: the session's user, or 401.
require_auth(session) ==
    IF session = None THEN Raise("Authentication required") ELSE Ok(session[1])

\* The sessions an arriving request may carry: users are named in the order
\* of their first request, u2 being a user other than u1.
ArrivingSessions ==
    IF \E q \in Runs : request[q].session = Some("u1")
    THEN Sessions
    ELSE Sessions \ {Some("u2")}

(***************************************************************************)
(* upload_document, from the request's arrival to the first insert         *)
(* (requests are numbered in arrival order).                               *)
(***************************************************************************)
Upload(r) ==
    /\ pc[r] = "start"
    /\ \A q \in Runs : q < r => pc[q] # "start"
    /\ \E session \in ArrivingSessions, filename \in Filenames :
        LET user == require_auth(session)
            file_extension == Lower(PathSuffix(Chars(filename)))
            job == ProcessingJob(r, Val(user), filename)
        IN  /\ request' = [request EXCEPT ![r] =
                              [session |-> session, filename |-> filename]]
            /\ IF ~user.ok
               THEN /\ Finish(r, HTTPException(401, <<user.err>>))
                    /\ UNCHANGED <<processing_jobs, job_log>>
               ELSE IF file_extension \notin allowed_extensions
               THEN /\ Finish(r, HTTPException(400, <<"File type not supported">>))
                    /\ UNCHANGED <<processing_jobs, job_log>>
               ELSE /\ processing_jobs' = InsertOne(processing_jobs, job)
                    /\ job_log' = Logged(processing_jobs', job.id)
                    /\ frame' = [frame EXCEPT ![r].job = Some(job)]
                    /\ pc' = [pc EXCEPT ![r] = "extract"]
                    /\ UNCHANGED response
    /\ UNCHANGED <<generated_forms, provider_forms, llm_key, credentials,
                   calls>>
    /\ UNCHANGED <<probe, api, abandoned, users, callback>>

\* Variant of TextIsEmpty that lets empty text through.
TextIsEmpty_Never(text) == FALSE

\* `if not text.strip()`
TextIsEmpty(text) == Strip(text) = <<>>

\* Variants of Except: the message of e is replaced by a generic one; the
\* error is noted and the pipeline goes on.
Except_MessageLost(r, e) ==
    /\ frame' = [frame EXCEPT ![r].e = Some("Internal error")]
    /\ pc' = [pc EXCEPT ![r] = "except"]
Except_Continues(r, e) ==
    /\ frame' = [frame EXCEPT ![r].e = Some(e)]
    /\ pc' = [pc EXCEPT ![r] = "persist60"]

\* Variant of Except: a failed external call is made again.
Except_Retries(r, e) ==
    /\ frame' = [frame EXCEPT ![r].e = Some(e)]
    /\ pc' = [pc EXCEPT ![r] = IF pc[r] \in {"analyze", "create_form"}
                                THEN pc[r] ELSE "except"]

\* The except branch is entered with exception e.
Except(r, e) ==
    /\ frame' = [frame EXCEPT ![r].e = Some(e)]
    /\ pc' = [pc EXCEPT ![r] = "except"]

\* Text extraction, the empty-text check and the Analyzing update.
ExtractStage(r) ==
    /\ pc[r] = "extract"
    /\ \E content \in Contents :
        LET res == extract_text_from_file(request[r].filename, content)
        IN  IF ~res.ok
            THEN /\ Except(r, res.err)
                 /\ calls' = [calls EXCEPT ![r].extract = Some(res)]
                 /\ UNCHANGED <<processing_jobs, job_log>>
            ELSE IF TextIsEmpty(Val(res))
            THEN /\ Except(r, "No text could be extracted from the file")
                 /\ calls' = [calls EXCEPT ![r].extract = Some(res)]
                 /\ UNCHANGED <<processing_jobs, job_log>>
            ELSE /\ processing_jobs' =
                        UpdateOne(processing_jobs, frame[r].job[1].id, AnalyzingUpdate)
                 /\ job_log' = Logged(processing_jobs', frame[r].job[1].id)
                 /\ frame' = [frame EXCEPT ![r].text = res.val]
                 /\ pc' = [pc EXCEPT ![r] = "analyze"]
                 /\ calls' = [calls EXCEPT ![r].extract = Some(res)]
    /\ UNCHANGED <<request, response, generated_forms, provider_forms, llm_key,
                   credentials>>
    /\ UNCHANGED <<probe, api, abandoned, users, callback>>

\* Variant of get_llm_chat with one session id for every job.
get_llm_chat_SharedSession(session_id) ==
    IF ~llm_key THEN Raise("500: LLM API key not configured")
    ELSE Ok([session_id |-> 0])

\* get_llm_chat: the chat session of session_id, or the missing key's error.
get_llm_chat(session_id) ==
    IF ~llm_key THEN Raise("500: LLM API key not configured")
    ELSE Ok([session_id |-> session_id])

\* analyze_text_with_llm(text, job.id): the backend call and the parsing of
\* its response.
AnalyzeStage(r) ==
    /\ pc[r] = "analyze"
    /\ LET chat == get_llm_chat(frame[r].job[1].id)
       IN  IF ~chat.ok
           THEN /\ Except(r, chat.err)
                /\ UNCHANGED calls
           ELSE \/ /\ Except(r, "backend error")
                   /\ calls' = [calls EXCEPT ![r].llm = Append(@,
                          [session_id |-> Val(chat).session_id, response |-> None])]
                \/ \E resp \in Responses :
                   /\ frame' = [frame EXCEPT ![r].analysis = Some(ParseResponse(resp))]
                   /\ pc' = [pc EXCEPT ![r] = "persist60"]
                   /\ calls' = [calls EXCEPT ![r].llm = Append(@,
                          [session_id |-> Val(chat).session_id, response |-> Some(resp)])]
    /\ UNCHANGED <<request, response, processing_jobs, generated_forms,
                   provider_forms, llm_key, credentials, job_log>>
    /\ UNCHANGED <<probe, api, abandoned, users, callback>>

\* The CreatingForm update.
Persist60(r) ==
    /\ pc[r] = "persist60"
    /\ processing_jobs' =
           UpdateOne(processing_jobs, frame[r].job[1].id, CreatingFormUpdate)
    /\ job_log' = Logged(processing_jobs', frame[r].job[1].id)
    /\ pc' = [pc EXCEPT ![r] = "create_form"]
    /\ UNCHANGED <<request, frame, response, generated_forms, provider_forms,
                   llm_key, credentials, calls>>
    /\ UNCHANGED <<probe, api, abandoned, users, callback>>

\* The provider's formId for a form request r creates: fresh, as the
\* provider never hands out an id twice.
NewFormId(r) == r

\* create_google_form(analysis)
CreateForm(r) ==
    /\ pc[r] = "create_form"
    /\ \E env \in ProviderOutcomes :
        LET out == create_google_form(frame[r].analysis[1], credentials, env,
                                      NewFormId(r))
        IN  /\ provider_forms' = provider_forms \cup {out.form[i] : i \in DOMAIN out.form}
            /\ calls' = [calls EXCEPT ![r].create = out.create,
                                      ![r].batch = out.batch]
            /\ IF out.res.ok
               THEN /\ frame' = [frame EXCEPT ![r].form_result = out.res.val]
                    /\ pc' = [pc EXCEPT ![r] = "insert_form"]
               ELSE Except(r, out.res.err)
    /\ UNCHANGED <<request, response, processing_jobs, generated_forms,
                   llm_key, credentials, job_log>>
    /\ UNCHANGED <<probe, api, abandoned, users, callback>>

\* The insert of the GeneratedForm record (its uuid4 is the request's number).
InsertForm(r) ==
    /\ pc[r] = "insert_form"
    /\ generated_forms' = InsertOne(generated_forms,
           GeneratedForm(r, Val(require_auth(request[r].session)),
                         request[r].filename, frame[r].form_result[1],
                         frame[r].analysis[1]))
    /\ calls' = [calls EXCEPT ![r].form_inserts = @ + 1]
    /\ pc' = [pc EXCEPT ![r] = "persist100"]
    /\ UNCHANGED <<request, frame, response, processing_jobs, provider_forms,
                   llm_key, credentials, job_log>>
    /\ UNCHANGED <<probe, api, abandoned, users, callback>>

\* Variant of Persist100 that returns the job as it is stored after the update.
Persist100_ReturnsStored(r) ==
    /\ pc[r] = "persist100"
    /\ processing_jobs' = UpdateOne(processing_jobs, frame[r].job[1].id,
                                    CompletedUpdate(frame[r].form_result[1]))
    /\ job_log' = Logged(processing_jobs', frame[r].job[1].id)
    /\ Finish(r, Returned(Doc(processing_jobs', frame[r].job[1].id)))
    /\ UNCHANGED <<request, generated_forms, provider_forms, llm_key,
                   credentials, calls>>
    /\ UNCHANGED <<probe, api, abandoned, users, callback>>

\* The Completed update and the return of the job object.
Persist100(r) ==
    /\ pc[r] = "persist100"
    /\ processing_jobs' = UpdateOne(processing_jobs, frame[r].job[1].id,
                                    CompletedUpdate(frame[r].form_result[1]))
    /\ job_log' = Logged(processing_jobs', frame[r].job[1].id)
    /\ Finish(r, Returned(frame[r].job[1]))
    /\ UNCHANGED <<request, generated_forms, provider_forms, llm_key,
                   credentials, calls>>
    /\ UNCHANGED <<probe, api, abandoned, users, callback>>

\* The except branch: the Failed update and the HTTPException raised.
PersistFailed(r) ==
    /\ pc[r] = "except"
    /\ processing_jobs' = UpdateOne(processing_jobs, frame[r].job[1].id,
                                    FailedUpdate(frame[r].e[1]))
    /\ job_log' = Logged(processing_jobs', frame[r].job[1].id)
    /\ Finish(r, HTTPException(500, <<"Processing failed: ", frame[r].e[1]>>))
    /\ UNCHANGED <<request, generated_forms, provider_forms, llm_key,
                   credentials, calls>>
    /\ UNCHANGED <<probe, api, abandoned, users, callback>>

Next ==
    \E r \in Runs :
        \/ Upload(r)
        \/ ExtractStage(r)
        \/ AnalyzeStage(r)
        \/ Persist60(r)
        \/ CreateForm(r)
        \/ InsertForm(r)
        \/ Persist100(r)
        \/ PersistFailed(r)

Spec == Init /\ [][Next]_vars

(***************************************************************************)
(* The pipeline together with delete_form, the one other operation that    *)
(* writes to db.generated_forms.                                           *)
(***************************************************************************)
\* Variant of DeleteOne whose filter names the form only, not its owner.
DeleteOne_AnyOwner(coll, form_id, user_id) ==
    LET hits == {i \in 1..Len(coll) : coll[i].form_id = form_id}
    IN  IF hits = {} THEN [coll |-> coll, deleted_count |-> 0]
        ELSE LET i == CHOOSE x \in hits : \A y \in hits : x <= y
             IN  [coll |-> SubSeq(coll, 1, i - 1) \o SubSeq(coll, i + 1, Len(coll)),
                  deleted_count |-> 1]

\* collection.delete_one({"form_id": form_id, "user_id": user_id}): the
\* collection without the first matching document, and deleted_count.
DeleteOne(coll, form_id, user_id) ==
    LET hits == {i \in 1..Len(coll) :
                    coll[i].form_id = form_id /\ coll[i].user_id = user_id}
    IN  IF hits = {} THEN [coll |-> coll, deleted_count |-> 0]
        ELSE LET i == CHOOSE x \in hits : \A y \in hits : x <= y
             IN  [coll |-> SubSeq(coll, 1, i - 1) \o SubSeq(coll, i + 1, Len(coll)),
                  deleted_count |-> 1]

\* The form ids a caller may name: those the provider has handed out so
\* far, and 0, which it never hands out.
FormIds == {f.formId : f \in provider_forms} \cup {0}

\* delete_form(form_id) of a caller with the given session: 401 without a
\* user, else the delete (404 when nothing was deleted).
DeleteForm ==
    \E session \in Sessions, form_id \in FormIds :
        LET user == require_auth(session)
        IN  /\ generated_forms' =
                   IF user.ok
                   THEN DeleteOne(generated_forms, form_id, Val(user)).coll
                   ELSE generated_forms
            /\ UNCHANGED <<pc, request, frame, response, processing_jobs,
                           provider_forms, llm_key, credentials, job_log, calls,
                           probe, api, abandoned, users, callback>>

ApiNext == Next \/ DeleteForm

ApiSpec == Init /\ [][ApiNext]_vars

(***************************************************************************)
(* The pipeline in an environment: callers of the other protected          *)
(* operations, callers that abandon their upload, and a persistence        *)
(* collaborator whose operations may fail.  These specifications follow    *)
(* the first MaxTrackedRuns upload requests.                               *)
(***************************************************************************)
TrackedRuns == 1..MaxTrackedRuns

\* A list in reverse: sort("created_at", -1) of documents stored in
\* the order of their creation.
Reverse(s) == [i \in 1..Len(s) |-> s[Len(s) + 1 - i]]

\* Variant of get_job_status whose filter names the job only, not its owner.
get_job_status_AnyOwner(session, job_id) ==
    LET user == require_auth(session)
        hits == {i \in 1..Len(processing_jobs) : processing_jobs[i].id = job_id}
    IN  IF ~user.ok THEN HTTPException(401, <<user.err>>)
        ELSE IF hits = {} THEN HTTPException(404, <<"Job not found">>)
        ELSE Returned(processing_jobs[CHOOSE x \in hits : \A y \in hits : x <= y])

\* get_job_status(job_id) of a caller with the given session.
get_job_status(session, job_id) ==
    LET user == require_auth(session)
        hits == {i \in 1..Len(processing_jobs) :
                    /\ processing_jobs[i].id = job_id
                    /\ processing_jobs[i].user_id = Val(user)}
    IN  IF ~user.ok THEN HTTPException(401, <<user.err>>)
        ELSE IF hits = {} THEN HTTPException(404, <<"Job not found">>)
        ELSE Returned(processing_jobs[CHOOSE x \in hits : \A y \in hits : x <= y])

\* get_user_forms() of a caller with the given session: the caller's forms,
\* newest first, at most 100.
get_user_forms(session) ==
    LET user == require_auth(session)
        Mine(f) == f.user_id = Val(user)
        forms == Reverse(SelectSeq(generated_forms, Mine))
    IN  IF ~user.ok THEN HTTPException(401, <<user.err>>)
        ELSE Returned(SubSeq(forms, 1, IF Len(forms) < 100 THEN Len(forms) ELSE 100))

\* delete_form(form_id) of a caller with the given session: the response and
\* the collection afterwards.
delete_form(session, form_id) ==
    LET user == require_auth(session)
        result == DeleteOne(generated_forms, form_id, Val(user))
    IN  IF ~user.ok
        THEN [response |-> HTTPException(401, <<user.err>>), coll |-> generated_forms]
        ELSE IF result.deleted_count = 0
        THEN [response |-> HTTPException(404, <<"Form not found">>),
              coll |-> result.coll]
        ELSE [response |-> Returned("Form deleted successfully"),
              coll |-> result.coll]

\* get_me() of a caller with the given session.
get_me(session) ==
    LET user == require_auth(session)
    IN  IF ~user.ok THEN HTTPException(401, <<user.err>>) ELSE Returned(Val(user))

\* The record of a call: operation, session, argument and response.
Called(op, session, arg, resp) ==
    Some([op |-> op, session |-> session, arg |-> arg, response |-> resp[1]])

GetJobStatus ==
    /\ \E session \in Sessions, job_id \in Runs \cup {0} :
           api' = Called("get_job_status", session, job_id,
                         get_job_status(session, job_id))
    /\ UNCHANGED <<pc, request, frame, response, processing_jobs, generated_forms,
                   provider_forms, llm_key, credentials, job_log, calls, probe,
                   abandoned, users, callback>>

GetUserForms ==
    /\ \E session \in Sessions :
           api' = Called("get_user_forms", session, 0, get_user_forms(session))
    /\ UNCHANGED <<pc, request, frame, response, processing_jobs, generated_forms,
                   provider_forms, llm_key, credentials, job_log, calls, probe,
                   abandoned, users, callback>>

DeleteFormCall ==
    /\ \E session \in Sessions, form_id \in FormIds :
           LET out == delete_form(session, form_id)
           IN  /\ api' = Called("delete_form", session, form_id, out.response)
               /\ generated_forms' = out.coll
    /\ UNCHANGED <<pc, request, frame, response, processing_jobs,
                   provider_forms, llm_key, credentials, job_log, calls, probe,
                   abandoned, users, callback>>

GetMe ==
    /\ \E session \in Sessions :
           api' = Called("get_me", session, 0, get_me(session))
    /\ UNCHANGED <<pc, request, frame, response, processing_jobs, generated_forms,
                   provider_forms, llm_key, credentials, job_log, calls, probe,
                   abandoned, users, callback>>

CallNext ==
    \/ \E r \in TrackedRuns :
           \/ Upload(r)
           \/ ExtractStage(r)
           \/ AnalyzeStage(r)
           \/ Persist60(r)
           \/ CreateForm(r)
           \/ InsertForm(r)
           \/ Persist100(r)
           \/ PersistFailed(r)
    \/ GetJobStatus
    \/ GetUserForms
    \/ DeleteFormCall
    \/ GetMe

CallSpec == Init /\ [][CallNext]_vars

(***************************************************************************)
(* Callers that abandon their upload.  The handler is cancelled where it   *)
(* is suspended at an external call: the read of the file for extraction,  *)
(* the language model's reply, the form provider.  The cancellation is a   *)
(* CancelledError, a BaseException (Python 3.8 and later), which the       *)
(* handler's `except Exception` does not catch.                             *)
(***************************************************************************)
AtExternalCall == {"extract", "analyze", "create_form"}

\* Variant of Abandon in which `except Exception` catches the cancellation.
Abandon_CaughtByExcept(r) ==
    /\ pc[r] \in AtExternalCall
    /\ abandoned' = abandoned \cup {r}
    /\ Except(r, "")
    /\ UNCHANGED <<request, response, processing_jobs, generated_forms,
                   provider_forms, llm_key, credentials, job_log, calls, probe,
                   api, users, callback>>

\* The caller of request r gives up: the handler ends where it stands, with
\* no response and no further statement executed.
Abandon(r) ==
    /\ pc[r] \in AtExternalCall
    /\ abandoned' = abandoned \cup {r}
    /\ pc' = [pc EXCEPT ![r] = "abandoned"]
    /\ frame' = [frame EXCEPT ![r] = EmptyFrame]
    /\ UNCHANGED <<request, response, processing_jobs, generated_forms,
                   provider_forms, llm_key, credentials, job_log, calls, probe,
                   api, users, callback>>

AbandonNext ==
    \E r \in TrackedRuns :
        \/ Upload(r)
        \/ ExtractStage(r)
        \/ AnalyzeStage(r)
        \/ Persist60(r)
        \/ CreateForm(r)
        \/ InsertForm(r)
        \/ Persist100(r)
        \/ PersistFailed(r)
        \/ Abandon(r)

AbandonSpec == Init /\ [][AbandonNext]_vars

(***************************************************************************)
(* A persistence collaborator whose operations may fail.  An update_one or *)
(* insert_one that raises has written nothing.  Inside the handler's `try` *)
(* the error enters the except branch like any other; raised by the Failed *)
(* update of the except branch itself, it leaves the handler unhandled.    *)
(* The insert of the job is taken to succeed: these are accepted uploads.  *)
(***************************************************************************)
\* What the caller gets when an exception leaves the handler unhandled.
Unhandled == HTTPException(500, <<"Internal Server Error">>)

\* The Analyzing update raises, after an extraction that gave text.
AnalyzingUpdateFails(r) ==
    /\ pc[r] = "extract"
    /\ \E content \in Contents :
        LET res == extract_text_from_file(request[r].filename, content)
        IN  /\ res.ok
            /\ ~TextIsEmpty(Val(res))
            /\ calls' = [calls EXCEPT ![r].extract = Some(res)]
    /\ Except(r, "persistence error")
    /\ UNCHANGED <<request, response, processing_jobs, generated_forms,
                   provider_forms, llm_key, credentials, job_log, probe, api,
                   abandoned, users, callback>>

\* The CreatingForm update, the insert of the form record or the Completed
\* update raises.
WriteFails(r) ==
    /\ pc[r] \in {"persist60", "insert_form", "persist100"}
    /\ Except(r, "persistence error")
    /\ UNCHANGED <<request, response, processing_jobs, generated_forms,
                   provider_forms, llm_key, credentials, job_log, calls, probe,
                   api, abandoned, users, callback>>

\* The Failed update of the except branch raises.
FailedUpdateFails(r) ==
    /\ pc[r] = "except"
    /\ Finish(r, Unhandled)
    /\ UNCHANGED <<request, processing_jobs, generated_forms, provider_forms,
                   llm_key, credentials, job_log, calls, probe, api, abandoned, users, callback>>

FaultNext ==
    \E r \in TrackedRuns :
        \/ Upload(r)
        \/ ExtractStage(r)
        \/ AnalyzeStage(r)
        \/ Persist60(r)
        \/ CreateForm(r)
        \/ InsertForm(r)
        \/ Persist100(r)
        \/ PersistFailed(r)
        \/ AnalyzingUpdateFails(r)
        \/ WriteFails(r)
        \/ FailedUpdateFails(r)

FaultSpec == Init /\ [][FaultNext]_vars

(***************************************************************************)
(* auth_callback: concurrent callbacks of the identity provider, each for  *)
(* one of the e-mail addresses.  A callback is suspended at find_one and   *)
(* at insert_one; what lies between two awaits is one step.                *)
(***************************************************************************)
\* collection.find_one({"email": email}): the first such document, or None.
FindOne(coll, email) ==
    LET hits == {i \in 1..Len(coll) : coll[i].email = email}
    IN  IF hits = {} THEN None
        ELSE Some(coll[CHOOSE x \in hits : \A y \in hits : x <= y])

\* request.session['user'] as auth_callback stores it.
SessionUser(user_data) == [id |-> user_data.id, email |-> user_data.email]

\* From the token's arrival to the answer of find_one: without userinfo the
\* callback redirects at once; else user_data is built with a fresh id (the
\* uuid4 of callback c is c) and the user is looked up by e-mail.
FindUser(c) ==
    /\ callback[c].pc = "start"
    /\ \E user_info \in {None} \cup {Some(email) : email \in Emails} :
           IF user_info = None
           THEN callback' = [callback EXCEPT ![c].pc = "done"]
           ELSE callback' = [callback EXCEPT
                    ![c].pc = "found",
                    ![c].user_data = Some([id |-> c, email |-> user_info[1]]),
                    ![c].existing_user = FindOne(users, user_info[1])]
    /\ UNCHANGED <<pc, request, frame, response, processing_jobs, generated_forms,
                   provider_forms, llm_key, credentials, job_log, calls, probe,
                   api, abandoned, users>>

\* `if not existing_user`: insert user_data, else take the stored user; then
\* store the user in the session and redirect.
StoreSession(c) ==
    /\ callback[c].pc = "found"
    /\ IF callback[c].existing_user = None
       THEN /\ users' = InsertOne(users, callback[c].user_data[1])
            /\ callback' = [callback EXCEPT
                   ![c].pc = "done",
                   ![c].session = Some(SessionUser(callback[c].user_data[1]))]
       ELSE /\ users' = users
            /\ callback' = [callback EXCEPT
                   ![c].pc = "done",
                   ![c].user_data = callback[c].existing_user,
                   ![c].session = Some(SessionUser(callback[c].existing_user[1]))]
    /\ UNCHANGED <<pc, request, frame, response, processing_jobs, generated_forms,
                   provider_forms, llm_key, credentials, job_log, calls, probe,
                   api, abandoned>>

AuthNext == \E c \in Callbacks : FindUser(c) \/ StoreSession(c)

AuthSpec == Init /\ [][AuthNext]_vars

(***************************************************************************)
(* The response parser and create_google_form called directly, on any      *)
(* response and any question list the backend may produce (the pipeline    *)
(* above draws from a few responses only).                                 *)
(***************************************************************************)
\* The type labels the prompt of analyze_text_with_llm asks for.
TypeLabels == {"RADIO", "CHECKBOX", "SHORT_ANSWER", "PARAGRAPH_TEXT", "TRUE_FALSE"}

\* Question objects a decoded response may hold: any label of the prompt or
\* another one, with and without `required` and `options`; the questions
\* titled "b", untitled or unlabelled carry no other field.
ProbeQuestions ==
    {q \in [title : {None, Some("a"), Some("b")},
            type : {None} \cup {Some(t) : t \in TypeLabels \cup {"ESSAY"}},
            required : {None, Some(TRUE), Some(FALSE)},
            options : {None, Some(<<>>), Some(<<"red", "blue">>)}] :
        (q.title # Some("a") \/ q.type = None) =>
            (q.required = None /\ q.options = None)}

QuestionLists == UNION {[1..n -> ProbeQuestions] : n \in 0..MaxQuestions}

Tokens == {"{", "}", "p"} \cup MemberToks

ProbeResponses == UNION {[1..n -> Tokens] : n \in 0..MaxTokens}

\* A decoded object with the given questions, as create_google_form gets it.
FormData(questions) ==
    [form_title |-> Some("Color quiz"), form_description |-> None,
     questions |-> Some(questions)]

ProbeInit ==
    /\ pc = [r \in Runs |-> "start"]
    /\ request = [r \in Runs |-> NoRequest]
    /\ frame = [r \in Runs |-> EmptyFrame]
    /\ response = [r \in Runs |-> None]
    /\ processing_jobs = <<>>
    /\ generated_forms = <<>>
    /\ provider_forms = {}
    /\ llm_key = TRUE
    /\ credentials = TRUE
    /\ job_log = [r \in Runs |-> <<>>]
    /\ calls = [r \in Runs |-> NoCallsYet]
    /\ api = None
    /\ abandoned = {}
    /\ users = <<>>
    /\ callback = [c \in Callbacks |-> NoCallback]
    /\ \/ \E raw \in ProbeResponses : probe = [NoProbe EXCEPT !.raw = raw]
       \/ \E questions \in QuestionLists :
              probe = [NoProbe EXCEPT !.questions = questions]
       \/ \E filename \in Filenames, content \in Contents :
              probe = [NoProbe EXCEPT
                          !.file = Some([filename |-> filename, content |-> content])]

\* analyze_text_with_llm's try block on the response probe.raw.
ParseProbe ==
    /\ probe.parsed = None
    /\ probe' = [probe EXCEPT !.parsed = Some(ParseResponse(probe.raw))]
    /\ UNCHANGED <<pc, request, frame, response, processing_jobs, generated_forms,
                   provider_forms, llm_key, credentials, job_log, calls, api, abandoned, users, callback>>

\* create_google_form on a decoded object with the questions probe.questions,
\* against a provider whose calls succeed.
PublishProbe ==
    /\ probe.published = None
    /\ probe' = [probe EXCEPT !.published =
           Some(create_google_form(FormData(probe.questions), credentials, "ok", 1))]
    /\ UNCHANGED <<pc, request, frame, response, processing_jobs, generated_forms,
                   provider_forms, llm_key, credentials, job_log, calls, api, abandoned, users, callback>>

\* extract_text_from_file on the file probe.file.
ExtractProbe ==
    /\ probe.file # None
    /\ probe.extracted = None
    /\ probe' = [probe EXCEPT !.extracted =
           Some(extract_text_from_file(probe.file[1].filename, probe.file[1].content))]
    /\ UNCHANGED <<pc, request, frame, response, processing_jobs, generated_forms,
                   provider_forms, llm_key, credentials, job_log, calls, api, abandoned, users, callback>>

ProbeNext == ParseProbe \/ PublishProbe \/ ExtractProbe

ProbeSpec == ProbeInit /\ [][ProbeNext]_vars

(***************************************************************************)
(* Properties of the job state machine.                                    *)
(***************************************************************************)
\* The ids of the job documents in db.processing_jobs.
JobIds == {j \in Runs : Matching(processing_jobs, j) # {}}

\* The job document with id j, as a reader finds it.
Job(j) == Doc(processing_jobs, j)

\* The (status, progress) pairs of the successive states of a job document.
Stages(log) == [k \in 1..Len(log) |-> <<log[k].status, log[k].progress>>]
StatusSeq(log) == [k \in 1..Len(log) |-> log[k].status]

Terminal == {"completed", "failed"}

\* C1: a job whose status is Completed was written exactly as Processing/0,
\* Analyzing/30, CreatingForm/60, Completed/100, in this order.
C1_CompletedProgressSequence ==
    \A j \in JobIds :
        Job(j).status = "completed" =>
            Stages(job_log[j]) = << <<"processing", 0>>, <<"analyzing", 30>>,
                                    <<"creating_form", 60>>, <<"completed", 100>> >>

C1_Witness == \E j \in JobIds : Job(j).status = "completed"

\* C2: the statuses a reader of a job can see, in order, are a prefix of
\* Processing, Analyzing, CreatingForm, Completed, or a prefix of Processing,
\* Analyzing, CreatingForm followed by Failed.
C2_StatusOrder ==
    \A j \in JobIds :
        /\ Seen(Job(j)) = job_log[j][Len(job_log[j])]
        /\ StatusSeq(job_log[j]) \in
              { <<"processing">>,
                <<"processing", "analyzing">>,
                <<"processing", "analyzing", "creating_form">>,
                <<"processing", "analyzing", "creating_form", "completed">>,
                <<"processing", "failed">>,
                <<"processing", "analyzing", "failed">>,
                <<"processing", "analyzing", "creating_form", "failed">> }

C2_Witness ==
    \E j \in JobIds :
        StatusSeq(job_log[j]) = <<"processing", "analyzing", "failed">>

\* C3: once a job document is Completed or Failed, no step of any request
\* changes it.
C3_TerminalAbsorbing ==
    [][\A j \in JobIds :
          Job(j).status \in Terminal =>
              /\ Matching(processing_jobs', j) # {}
              /\ Doc(processing_jobs', j) = Job(j)]_vars

\* A job is Completed while another request is in its except branch, its
\* Failed update still to come.
C3_Witness ==
    \E j \in JobIds, k \in JobIds :
        /\ Job(j).status = "completed"
        /\ pc[k] = "except"

\* C4: the states written to a Failed job are a prefix of Processing/0,
\* Analyzing/30, CreatingForm/60 and then the Failed state, last, with the
\* progress of the state before it.
C4_FailedProgress ==
    \A j \in JobIds :
        Job(j).status = "failed" =>
            LET n == Len(job_log[j])
            IN  /\ n \in 2..4
                /\ SubSeq(Stages(job_log[j]), 1, n - 1) =
                       SubSeq(<< <<"processing", 0>>, <<"analyzing", 30>>,
                                 <<"creating_form", 60>> >>, 1, n - 1)
                /\ job_log[j][n].status = "failed"
                /\ job_log[j][n].progress = job_log[j][n - 1].progress
                /\ job_log[j][n].progress \in {0, 30, 60}

C4_Witness ==
    \E j \in JobIds : Job(j).status = "failed" /\ Job(j).progress = 60

\* C5: in every state of every job document, error_message is set exactly
\* when the status is Failed.
C5_ErrorMessageIffFailed ==
    \A j \in JobIds :
        \A k \in 1..Len(job_log[j]) :
            (job_log[j][k].error_message # None) <=> (job_log[j][k].status = "failed")

C5_Witness ==
    \E j \in JobIds :
        /\ Job(j).status = "failed"
        /\ Job(j).error_message = Some("HttpError: forms.create")

\* C6: in every state of every job document, form_id is set exactly when the
\* status is Completed, and a Completed state has progress 100: the state
\* that first shows Completed already shows the form id.
C6_FormIdIffCompleted ==
    \A j \in JobIds :
        \A k \in 1..Len(job_log[j]) :
            /\ (job_log[j][k].form_id # None) <=> (job_log[j][k].status = "completed")
            /\ job_log[j][k].status = "completed" => job_log[j][k].progress = 100

C6_Witness ==
    \E j \in JobIds :
        /\ Job(j).status = "completed"
        /\ Job(j).form_id = Some(NewFormId(j))

(***************************************************************************)
(* Properties of the error paths.                                          *)
(***************************************************************************)
\* The extensions the upload boundary accepts.
SupportedExtensions == {<<".", "p", "d", "f">>, <<".", "d", "o", "c", "x">>,
                        <<".", "t", "x", "t">>}

\* Request r came with a session and a file name whose extension is not a
\* supported one, whatever its case.
UnsupportedUpload(r) ==
    /\ pc[r] # "start"
    /\ request[r].session # None
    /\ Lower(PathSuffix(Chars(request[r].filename))) \notin SupportedExtensions

\* C7: an authenticated upload with an unsupported extension is rejected: no
\* job document is inserted for it, no collaborator is called, and the caller
\* gets a rejected (400) request.
C7_UnsupportedRejectedBeforeJob ==
    \A r \in Runs :
        UnsupportedUpload(r) =>
            /\ pc[r] = "done"
            /\ response[r] # None /\ response[r][1].status_code = 400
            /\ r \notin JobIds /\ job_log[r] = <<>>
            /\ \A i \in 1..Len(processing_jobs) :
                   processing_jobs[i].filename # request[r].filename
            /\ calls[r] = NoCallsYet

C7_Witness ==
    \E r \in Runs :
        /\ UnsupportedUpload(r)
        /\ request[r].filename = "f.exe"
        /\ JobIds # {}

\* The extraction of request r raised, or gave text that is empty once
\* trimmed.
ExtractionFailed(r) ==
    /\ calls[r].extract # None
    /\ \/ ~calls[r].extract[1].ok
       \/ Strip(calls[r].extract[1].val[1]) = <<>>

\* The message of the extraction failure of request r.
ExtractionMessage(r) ==
    IF ~calls[r].extract[1].ok THEN calls[r].extract[1].err
    ELSE "No text could be extracted from the file"

\* C8: when extraction raises or yields empty text the job never shows
\* Analyzing, the backend and the provider are never called, and the job ends
\* as Processing/0 then Failed with the error's message.
C8_ExtractionFailureFailsJob ==
    \A r \in Runs :
        ExtractionFailed(r) =>
            /\ \A k \in 1..Len(job_log[r]) : job_log[r][k].status # "analyzing"
            /\ calls[r].llm = <<>>
            /\ calls[r].create = "none" /\ calls[r].batch = "none"
            /\ pc[r] \in {"except", "done"}
            /\ pc[r] = "done" =>
                  /\ Stages(job_log[r]) = << <<"processing", 0>>, <<"failed", 0>> >>
                  /\ Job(r).error_message = Some(ExtractionMessage(r))

C8_Witness ==
    \E r \in Runs, q \in Runs :
        /\ pc[r] = "done" /\ pc[q] = "done"
        /\ ExtractionFailed(r) /\ calls[r].extract[1].ok
        /\ ExtractionFailed(q) /\ ~calls[q].extract[1].ok

\* A provider call of request r failed.
ProviderCallFailed(r) == calls[r].create = "failed" \/ calls[r].batch = "failed"

\* C9: when the provider's create or batch-insert call fails the job ends
\* Failed, no generated_forms record is inserted for it, and its form_id
\* stays unset.
C9_ProviderFailureFailsJob ==
    \A r \in Runs :
        ProviderCallFailed(r) =>
            /\ calls[r].form_inserts = 0
            /\ \A i \in 1..Len(generated_forms) :
                   /\ generated_forms[i].id # r
                   /\ generated_forms[i].form_id # NewFormId(r)
            /\ \A k \in 1..Len(job_log[r]) :
                   job_log[r][k].form_id = None /\ job_log[r][k].status # "completed"
            /\ pc[r] \in {"except", "done"}
            /\ pc[r] = "done" => Job(r).status = "failed"

C9_Witness ==
    \E r \in Runs, q \in Runs :
        /\ pc[r] = "done" /\ calls[r].batch = "failed"
        /\ pc[q] = "done" /\ calls[q].create = "failed"

\* The backend answered request r with a response.
BackendResponded(r) ==
    /\ Len(calls[r].llm) = 1
    /\ calls[r].llm[1].response # None

\* A response in which no {...} span is found or whose span does not decode.
Unparseable(resp) ==
    \/ RegexSearch(resp) = None
    \/ ~JsonLoads(resp, RegexSearch(resp)[1]).ok

\* C10: whatever the backend's response holds, a job whose provider calls
\* succeed ends Completed, and for an unparseable response the stored form is
\* the fallback form with one question.
C10_ResponseNeverFailsJob ==
    \A r \in Runs :
        (/\ pc[r] = "done"
         /\ BackendResponded(r)
         /\ credentials
         /\ ~ProviderCallFailed(r)) =>
            /\ Job(r).status = "completed"
            /\ Unparseable(calls[r].llm[1].response[1]) =>
                  \E i \in 1..Len(generated_forms) :
                      /\ generated_forms[i].id = r
                      /\ generated_forms[i].form_title = "Extracted Questions Form"
                      /\ generated_forms[i].questions_count = 1

(***************************************************************************)
(* Properties of the analysis stage.                                       *)
(***************************************************************************)
\* C11: analyze_text_with_llm never raises, so no job goes from Analyzing to
\* Failed: a Failed job never stands at the Analyzing stage's progress.
C11_AnalysisNeverFailsJob ==
    \A j \in JobIds :
        StatusSeq(job_log[j]) # <<"processing", "analyzing", "failed">>

\* The keys create_google_form requires of the decoded object.
MissingRequiredField(d) == d.form_title = None \/ d.questions = None

\* The object the response's {...} span decodes to, if it decodes.
Decoded(raw) ==
    IF RegexSearch(raw) = None THEN None
    ELSE LET d == JsonLoads(raw, RegexSearch(raw)[1])
         IN  IF d.ok THEN d.val ELSE None

\* C12: a response that decodes to an object without form_title or without
\* questions is answered with the fallback result.
C12_MissingFieldGivesFallback ==
    (/\ probe.parsed # None
     /\ Decoded(probe.raw) # None
     /\ MissingRequiredField(Decoded(probe.raw)[1])) =>
        probe.parsed[1] = FallbackResponse

(***************************************************************************)
(* Properties of the mapping from questions to provider items.             *)
(***************************************************************************)
\* create_google_form returned for the questions of the direct call.
Mapped == probe.published # None /\ probe.published[1].res.ok

\* The requests of the batch-insert call the direct call made.
Sent ==
    IF probe.published[1].batch = "ok" THEN probe.published[1].form[1].items
    ELSE <<>>

\* The item of the k-th request sent.
SentItem(k) == Sent[k].createItem.item

\* C13: a question labelled TRUE_FALSE is sent as a RADIO choice item with
\* exactly the options True and False, whatever options the response gave.
C13_TrueFalseIsTwoOptionRadio ==
    Mapped =>
        \A k \in 1..Len(probe.questions) :
            probe.questions[k].type = Some("TRUE_FALSE") =>
                /\ k <= Len(Sent)
                /\ SentItem(k).choiceQuestion =
                       Some([type |-> "RADIO",
                             options |-> OptionValues(<<"True", "False">>)])

\* C14: a RADIO or CHECKBOX question without options, the field absent or an
\* empty list, is sent with the options "Option 1" and "Option 2", and no
\* choice item is sent with zero options.
C14_ChoiceNeverWithoutOptions ==
    Mapped =>
        /\ \A k \in 1..Len(probe.questions) :
               LET q == probe.questions[k]
               IN  (q.type \in {Some("RADIO"), Some("CHECKBOX")}
                    /\ Get(q.options, <<>>) = <<>>) =>
                       /\ k <= Len(Sent)
                       /\ SentItem(k).choiceQuestion =
                              Some([type |-> q.type[1],
                                    options |-> OptionValues(<<"Option 1", "Option 2">>)])
        /\ \A k \in 1..Len(Sent) :
               SentItem(k).choiceQuestion # None =>
                   Len(SentItem(k).choiceQuestion[1].options) > 0

\* C15: the batch request holds one createItem per question, the k-th
\* (zero-based) built from the k-th question and carrying location index k.
C15_MappingPreservesOrder ==
    Mapped =>
        /\ Len(Sent) = Len(probe.questions)
        /\ probe.questions # <<>> => probe.published[1].batch = "ok"
        /\ \A k \in 1..Len(probe.questions) :
               /\ Sent[k].createItem.location.index = k - 1
               /\ SentItem(k).title = probe.questions[k].title[1]
               /\ SentItem(k) = Val(QuestionItem(probe.questions[k]))

C15_Witness ==
    /\ Mapped
    /\ Len(probe.questions) = MaxQuestions
    /\ probe.questions[1].title = Some("b")
    /\ probe.questions[MaxQuestions].title = Some("a")
    /\ probe.questions[MaxQuestions].type = Some("CHECKBOX")

\* The question has the two keys the mapping reads with question[...].
HasTitleAndType(q) == q.title # None /\ q.type # None

\* C16: a question whose label is none of the prompt's labels is sent as a
\* paragraph text item, and create_google_form does not raise because of it.
C16_UnknownLabelIsParagraph ==
    probe.published # None =>
        /\ (\A k \in 1..Len(probe.questions) : HasTitleAndType(probe.questions[k]))
               => probe.published[1].res.ok
        /\ probe.published[1].res.ok =>
               \A k \in 1..Len(probe.questions) :
                   probe.questions[k].type[1] \notin TypeLabels =>
                       /\ SentItem(k).textQuestion = Some([paragraph |-> TRUE])
                       /\ SentItem(k).choiceQuestion = None

C16_Witness ==
    /\ Mapped
    /\ \E k \in 1..Len(probe.questions) :
           /\ probe.questions[k].type = Some("ESSAY")
           /\ probe.questions[k].options = Some(<<"red", "blue">>)

\* C17: every item sent carries its question's required flag, FALSE when the
\* question has none.
C17_RequiredCarried ==
    Mapped =>
        \A k \in 1..Len(probe.questions) :
            /\ k <= Len(Sent)
            /\ SentItem(k).required =
                   (IF probe.questions[k].required = None THEN FALSE
                    ELSE probe.questions[k].required[1])

C17_Witness ==
    /\ Mapped
    /\ Len(probe.questions) = MaxQuestions
    /\ probe.questions[1].required = Some(TRUE)
    /\ probe.questions[1].type = Some("SHORT_ANSWER")
    /\ probe.questions[MaxQuestions].required = None
    /\ probe.questions[MaxQuestions].type = Some("RADIO")

(***************************************************************************)
(* Properties of the published form and its record.                        *)
(***************************************************************************)
\* The extraction result the analysis stage of request r returned.
Analysis(r) == ParseResponse(calls[r].llm[1].response[1])

\* The extraction result of request r has a title and no question.
EmptyResult(r) ==
    /\ BackendResponded(r)
    /\ Analysis(r).form_title # None
    /\ Analysis(r).questions = Some(<<>>)

\* The generated_forms records request r inserted that are still stored.
FormRecords(r) == {i \in 1..Len(generated_forms) : generated_forms[i].id = r}

\* C18: for an extraction result with no questions the provider's create
\* call is made, the batch-insert call is not, and when the create call
\* succeeds the job ends Completed with a form record counting 0 questions.
C18_EmptyFormSkipsBatch ==
    \A r \in Runs :
        EmptyResult(r) =>
            /\ calls[r].batch = "none"
            /\ (credentials /\ pc[r] \in {"insert_form", "persist100", "except", "done"})
                   => calls[r].create # "none"
            /\ (calls[r].create = "ok" /\ pc[r] = "done") =>
                   /\ Job(r).status = "completed"
                   /\ \E i \in FormRecords(r) :
                          generated_forms[i].questions_count = 0
                   /\ \E f \in provider_forms :
                          f.formId = NewFormId(r) /\ f.items = <<>>

C18_Witness ==
    \E r \in Runs :
        /\ EmptyResult(r)
        /\ pc[r] = "done"
        /\ Job(r).status = "completed"

\* C19: a run inserts at most one generated_forms record, and only after
\* create_google_form returned for it; a stored record never changes, and
\* it leaves the collection only by a delete_form step.
C19_FormInsertedOnceAndImmutable ==
    /\ [](\A r \in Runs :
             /\ calls[r].form_inserts <= 1
             /\ Cardinality(FormRecords(r)) <= calls[r].form_inserts
             /\ calls[r].form_inserts = 1 =>
                    /\ calls[r].create = "ok"
                    /\ calls[r].batch # "failed"
                    /\ pc[r] \in {"persist100", "done"})
    /\ [][\A i \in 1..Len(generated_forms) :
             \/ \E k \in 1..Len(generated_forms') :
                    generated_forms'[k] = generated_forms[i]
             \/ /\ \A k \in 1..Len(generated_forms') :
                       generated_forms'[k].id # generated_forms[i].id
                /\ DeleteForm]_vars

\* A record was inserted and deleted while another run's record is stored.
C19_Witness ==
    \E r \in Runs, q \in Runs :
        /\ calls[r].form_inserts = 1 /\ FormRecords(r) = {}
        /\ FormRecords(q) # {}

\* C20: a stored record's questions_count is the number of questions of the
\* extraction result and the number of items the provider got in the batch.
C20_QuestionCountConsistent ==
    \A r \in Runs :
        \A i \in FormRecords(r) :
            /\ BackendResponded(r)
            /\ generated_forms[i].questions_count = Len(Analysis(r).questions[1])
            /\ \E f \in provider_forms :
                   /\ f.formId = generated_forms[i].form_id
                   /\ Len(f.items) = generated_forms[i].questions_count
            /\ (calls[r].batch = "ok") <=> (generated_forms[i].questions_count > 0)

C20_Witness ==
    \E r \in Runs :
        \E i \in FormRecords(r) : generated_forms[i].questions_count = 2

(***************************************************************************)
(* Properties of the orchestration: errors, concurrency and stage order.   *)
(***************************************************************************)
\* The caller of request r got the generic processing failure.
ProcessingFailure(r) ==
    /\ response[r] # None
    /\ response[r][1].status_code = 500
    /\ Len(response[r][1].detail) = 2
    /\ response[r][1].detail[1] = "Processing failed: "

\* The messages of the errors the stages of request r can have raised, given
\* the calls it made.
StageErrors(r) ==
    IF calls[r].extract = None THEN {}
    ELSE IF ExtractionFailed(r) THEN {ExtractionMessage(r)}
    ELSE IF calls[r].llm = <<>> THEN {"500: LLM API key not configured"}
    ELSE IF calls[r].llm[1].response = None THEN {"backend error"}
    ELSE {create_google_form(Analysis(r), credentials, env, NewFormId(r)).res.err :
             env \in ProviderOutcomes} \ {""}

\* C21: a caller gets the generic processing failure only when its job is
\* stored as Failed with the stage error's message, which is also the message
\* in the failure; and every Failed job's caller got that failure.
C21_FailureReportedConsistently ==
    \A r \in Runs :
        /\ ProcessingFailure(r) =>
               /\ r \in JobIds
               /\ Job(r).status = "failed"
               /\ Job(r).error_message = Some(response[r][1].detail[2])
               /\ response[r][1].detail[2] \in StageErrors(r)
        /\ (r \in JobIds /\ Job(r).status = "failed") =>
               pc[r] = "done" /\ ProcessingFailure(r)

C21_Witness ==
    \E r \in Runs :
        /\ ProcessingFailure(r)
        /\ response[r][1].detail[2] = "'questions'"

\* The histories a single job may show: (status, progress) of its states.
JobHistories ==
    LET full == << <<"processing", 0>>, <<"analyzing", 30>>,
                   <<"creating_form", 60>>, <<"completed", 100>> >>
    IN  {SubSeq(full, 1, n) : n \in 1..4}
        \cup {Append(SubSeq(full, 1, n), <<"failed", full[n][2]>>) : n \in 1..3}

\* C23: every job id names one job document, the one the run of that id
\* created for its own request; a step that writes a job document is a step
\* of the run that created it, and writes no other job; and every job's
\* history is one of the single-job histories, whatever the other runs do.
C23_RunsWriteOwnJobOnly ==
    /\ [](\A j \in JobIds :
             /\ Cardinality(Matching(processing_jobs, j)) = 1
             /\ pc[j] # "start"
             /\ request[j].session # None
             /\ Job(j).user_id = Val(require_auth(request[j].session))
             /\ Job(j).filename = request[j].filename
             /\ Stages(job_log[j]) \in JobHistories)
    /\ [][\A j \in Runs :
             job_log'[j] # job_log[j] =>
                 /\ pc'[j] # pc[j]
                 /\ \A q \in Runs \ {j} :
                        pc'[q] = pc[q] /\ job_log'[q] = job_log[q]]_vars

\* Two runs of one user for one file name are both past their first update.
C23_Witness ==
    \E r \in Runs, q \in Runs :
        /\ r # q
        /\ request[r] = request[q]
        /\ Len(job_log[r]) >= 2 /\ Len(job_log[q]) >= 2
        /\ Job(r).status # Job(q).status

\* C24: the backend is called under the session id that is the run's job id,
\* so the calls of two jobs never share a session id.
C24_BackendSessionIsJobId ==
    \A r \in Runs :
        \A k \in 1..Len(calls[r].llm) :
            /\ r \in JobIds
            /\ calls[r].llm[k].session_id = Job(r).id
            /\ \A q \in Runs \ {r} :
                   \A m \in 1..Len(calls[q].llm) :
                       calls[q].llm[m].session_id # calls[r].llm[k].session_id

C24_Witness ==
    \E r \in Runs, q \in Runs :
        /\ r # q
        /\ request[r] = request[q]
        /\ calls[r].llm # <<>> /\ calls[q].llm # <<>>

\* A stage of request r has raised: the extraction, the backend call, a
\* provider call, or any other step of the try block.
StageError(r) ==
    \/ ExtractionFailed(r)
    \/ calls[r].llm # <<>> /\ calls[r].llm[1].response = None
    \/ ProviderCallFailed(r)
    \/ pc[r] = "except"
    \/ pc[r] = "done" /\ r \in JobIds /\ Job(r).status = "failed"

\* C28: after the first stage error of a job no external call is made for
\* it, no generated_forms record is inserted for it, and the only write to
\* its document is the Failed update; the step that raises writes nothing of
\* the job; and the batch-insert call is never made when the create call failed.
C28_FailureShortCircuits ==
    /\ [](\A r \in Runs : calls[r].create = "failed" => calls[r].batch = "none")
    /\ [][\A r \in Runs :
             /\ (pc[r] # "except" /\ pc'[r] = "except") =>
                    /\ job_log'[r] = job_log[r]
                    /\ calls'[r].form_inserts = calls[r].form_inserts
             /\ StageError(r) =>
                    /\ calls'[r] = calls[r]
                    /\ pc'[r] \in {"except", "done"}
                    /\ \/ job_log'[r] = job_log[r]
                       \/ /\ Len(job_log'[r]) = Len(job_log[r]) + 1
                          /\ job_log'[r][Len(job_log'[r])].status = "failed"]_vars

\* A run failed at the create call and ended, while another run goes on.
C28_Witness ==
    \E r \in Runs, q \in Runs :
        /\ pc[r] = "done" /\ calls[r].create = "failed"
        /\ pc[q] = "persist100"

\* C29: the backend call of a run is made while its job is stored as
\* Analyzing/30, and its provider create call while its job is stored as
\* CreatingForm/60.
C29_StageAfterPersistedUpdate ==
    [][\A r \in Runs :
          /\ calls'[r].llm # calls[r].llm =>
                 /\ r \in JobIds
                 /\ Job(r).status = "analyzing" /\ Job(r).progress = 30
          /\ calls'[r].create # calls[r].create =>
                 /\ r \in JobIds
                 /\ Job(r).status = "creating_form" /\ Job(r).progress = 60]_vars

C29_Witness ==
    \E r \in Runs : calls[r].create = "ok" /\ calls[r].llm # <<>>

\* C30: a generated_forms record of a run is inserted while its job is stored
\* as CreatingForm, so a Completed job's record was inserted before: it has
\* the job's form id and owner, and is stored unless delete_form removed it.
C30_FormInsertedBeforeCompleted ==
    /\ [](\A j \in JobIds :
             Job(j).status = "completed" =>
                 /\ calls[j].form_inserts = 1
                 /\ \A i \in FormRecords(j) :
                        /\ Some(generated_forms[i].form_id) = Job(j).form_id
                        /\ generated_forms[i].user_id = Job(j).user_id)
    /\ [][\A j \in Runs :
             /\ calls'[j].form_inserts # calls[j].form_inserts =>
                    /\ Job(j).status = "creating_form"
                    /\ Doc(processing_jobs', j) = Job(j)
                    /\ Cardinality(FormRecords(j)') = 1
             /\ (Cardinality(FormRecords(j)') < Cardinality(FormRecords(j)))
                    => DeleteForm]_vars

\* A job is Completed with its record stored, another with its record deleted.
C30_Witness ==
    \E j \in JobIds, k \in JobIds :
        /\ Job(j).status = "completed" /\ FormRecords(j) # {}
        /\ Job(k).status = "completed" /\ FormRecords(k) = {}

(***************************************************************************)
(* Properties of the text extractor called directly.                       *)
(***************************************************************************)
\* C26: extract_text_from_file on a file name whose extension is not .pdf,
\* .docx or .txt raises UnsupportedFormat and returns no text.
C26_ExtractorRejectsUnsupported ==
    (/\ probe.extracted # None
     /\ Lower(PathSuffix(Chars(probe.file[1].filename))) \notin SupportedExtensions) =>
        /\ ~probe.extracted[1].ok
        /\ probe.extracted[1].err = "UnsupportedFormat"

(***************************************************************************)
(* Properties of the protected operations.                                 *)
(***************************************************************************)
\* C27: an upload without a session user ends with 401 whatever its file
\* name, with no job, no call and no record; a call of get_job_status,
\* get_user_forms, delete_form or get_me without a session user is answered
\* 401 with no body, and changes neither collection (a step that leaves
\* every upload where it is, is a call of one of these operations).
C27_UnauthenticatedRejected ==
    /\ [](\A r \in Runs :
             (pc[r] # "start" /\ request[r].session = None) =>
                 /\ pc[r] = "done"
                 /\ response[r] # None /\ response[r][1].status_code = 401
                 /\ r \notin JobIds /\ job_log[r] = <<>>
                 /\ FormRecords(r) = {}
                 /\ calls[r] = NoCallsYet)
    /\ []((api # None /\ api[1].session = None) =>
             /\ api[1].response.status_code = 401
             /\ api[1].response.body = None)
    /\ [][(pc' = pc /\ api' # None /\ api'[1].session = None) =>
             UNCHANGED <<processing_jobs, generated_forms, provider_forms,
                         job_log, calls>>]_vars
    /\ [][\A r \in Runs :
             (pc[r] = "start" /\ pc'[r] # "start" /\ request'[r].session = None) =>
                 UNCHANGED <<processing_jobs, generated_forms, provider_forms,
                             job_log, calls>>]_vars

\* delete_form was called without a session user for a stored form, after an
\* upload without a session user of a file with an unsupported name.
C27_Witness ==
    /\ api # None
    /\ api[1].op = "delete_form" /\ api[1].session = None
    /\ \E i \in 1..Len(generated_forms) : generated_forms[i].form_id = api[1].arg

(***************************************************************************)
(* Abandoned uploads.                                                      *)
(***************************************************************************)
\* (status, progress) of the job states an abandoned run can leave behind.
LastPersisted == {<<"processing", 0>>, <<"analyzing", 30>>, <<"creating_form", 60>>}

\* C22: a run abandoned while suspended at an external call has a job
\* document in the state of the last write to it, which is Processing/0,
\* Analyzing/30 or CreatingForm/60 with no error message and no form id;
\* the step of abandonment and every later step leave that document, the
\* log of writes to it and the run's external calls as they are, the run
\* never resumes, and no form record is ever stored for it.
C22_AbandonedJobKeepsLastState ==
    /\ [](\A r \in abandoned :
             /\ r \in JobIds
             /\ Seen(Job(r)) = job_log[r][Len(job_log[r])]
             /\ <<Job(r).status, Job(r).progress>> \in LastPersisted
             /\ Job(r).status \notin Terminal
             /\ Job(r).error_message = None /\ Job(r).form_id = None
             /\ response[r] = None
             /\ FormRecords(r) = {})
    /\ [][\A r \in Runs : r \in abandoned' =>
             /\ r \in JobIds /\ Job(r)' = Job(r)
             /\ job_log'[r] = job_log[r]
             /\ calls'[r] = calls[r]
             /\ r \in abandoned => (pc'[r] = pc[r] /\ frame'[r] = frame[r])]_vars

\* A run was abandoned while waiting for the language model's reply, its job
\* at Analyzing/30.
C22_Witness ==
    \E r \in abandoned :
        /\ r \in JobIds /\ Job(r).status = "analyzing" /\ Job(r).progress = 30
        /\ calls[r].extract # None /\ calls[r].llm = <<>>

(***************************************************************************)
(* Uploads over a persistence collaborator that may fail.                  *)
(***************************************************************************)
\* C25: the upload of an accepted request (its job was created) has returned
\* to its caller only with the job's persisted status terminal: Completed
\* when it returned the job, Failed when it returned an error.
C25_ReturnsOnlyAtTerminal ==
    \A r \in Runs :
        (pc[r] = "done" /\ r \in JobIds) =>
            /\ Job(r).status \in Terminal
            /\ Job(r).status =
                   IF response[r][1].status_code = 200 THEN "completed" ELSE "failed"

(***************************************************************************)
(* External calls are made once.                                           *)
(***************************************************************************)
\* The forms the provider created for request r.
ProviderFormsOf(r) == {f \in provider_forms : f.formId = NewFormId(r)}

\* An external call of request r has failed.
ExternalCallFailed(r) ==
    \/ calls[r].llm # <<>> /\ calls[r].llm[1].response = None
    \/ ProviderCallFailed(r)

\* C31: per job the text-generation backend is called at most once, the
\* provider creates at most one form, and batchUpdate is called at most once,
\* with all the mapped items; the steps that make these calls are taken only
\* while the call has not been made, and after a failed call the run makes
\* no further external call.
C31_NoExternalCallRetried ==
    /\ [](\A r \in Runs :
             /\ Len(calls[r].llm) <= 1
             /\ Cardinality(ProviderFormsOf(r)) <= 1
             /\ calls[r].batch # "none" => calls[r].create = "ok"
             /\ calls[r].batch = "ok" =>
                    \E f \in ProviderFormsOf(r) :
                        /\ f.items = Val(BuildRequests(Analysis(r).questions[1]))
                        /\ f.items # <<>>)
    /\ [][\A r \in Runs :
             /\ AnalyzeStage(r) => calls[r].llm = <<>>
             /\ CreateForm(r) => (calls[r].create = "none" /\ calls[r].batch = "none")
             /\ ExternalCallFailed(r) =>
                    (calls'[r] = calls[r] /\ ProviderFormsOf(r)' = ProviderFormsOf(r))]_vars

\* The provider's batchUpdate failed for a form it had created, and the job
\* was marked Failed.
C31_Witness ==
    \E r \in JobIds :
        /\ calls[r].create = "ok" /\ calls[r].batch = "failed"
        /\ Len(calls[r].llm) = 1
        /\ Job(r).status = "failed"

(***************************************************************************)
(* The fallback result.                                                    *)
(***************************************************************************)
\* The response holds no "{" with a "}" at or after it.
NoBraceSpan(raw) ==
    ~\E i, j \in 1..Len(raw) : i <= j /\ HasOpen(raw[i]) /\ HasClose(raw[j])

\* The response starts with a valid object, which further text holding a
\* "}" follows.
ObjectThenBrace(raw) ==
    \E k, m \in 1..Len(raw) :
        /\ k < m
        /\ raw[1] = "{" /\ raw[k] = "}"
        /\ \A n \in 2..(k - 1) : raw[n] \in MemberToks
        /\ HasClose(raw[m])

\* C32: a response with no {...} span, a response whose span from the first
\* "{" to the last "}" does not decode, and in particular a valid object
\* followed by further text with a "}", are answered with the fallback
\* result: its title, its description, and one PARAGRAPH_TEXT question that
\* is not required.
C32_UndecodableGivesFallback ==
    probe.parsed # None =>
        /\ (NoBraceSpan(probe.raw) \/ Unparseable(probe.raw)
               \/ ObjectThenBrace(probe.raw)) =>
              probe.parsed[1] = FallbackResponse
        /\ probe.parsed[1] = FallbackResponse =>
              /\ probe.parsed[1].form_title = Some("Extracted Questions Form")
              /\ probe.parsed[1].form_description =
                     Some("Questions extracted from uploaded document")
              /\ Len(probe.parsed[1].questions[1]) = 1
              /\ probe.parsed[1].questions[1][1].type = Some("PARAGRAPH_TEXT")
              /\ probe.parsed[1].questions[1][1].required = Some(FALSE)

\* The response `{} p }` was parsed: an empty object, then text with a "}".
C32_Witness ==
    /\ probe.raw = <<"{", "}", "p", "}">>
    /\ probe.parsed = Some(FallbackResponse)

(***************************************************************************)
(* The frame of the job updates.                                           *)
(***************************************************************************)
\* The fields of a job document that the Failed update does not name.
KeptByFailure == {"id", "user_id", "filename", "created_at", "progress", "form_id"}

\* C33: the step that marks a job Failed sets status and error_message and
\* leaves progress, form_id, user_id, filename and created_at of that job as
\* they were, and every other job document as it was; no step of any kind
\* changes a job's id, user_id, filename or created_at or removes a job.
C33_FailedChangesStatusAndMessageOnly ==
    [][\A j \in JobIds :
          /\ j \in JobIds'
          /\ \A k \in {"id", "user_id", "filename", "created_at"} :
                Job(j)'[k] = Job(j)[k]
          /\ (Job(j).status # "failed" /\ Job(j)'.status = "failed") =>
                /\ \A k \in KeptByFailure : Job(j)'[k] = Job(j)[k]
                /\ Job(j)'.error_message # None
                /\ \A i \in JobIds \ {j} : Job(i)' = Job(i)
                /\ Len(processing_jobs') = Len(processing_jobs)]_vars

\* A job was marked Failed at CreatingForm's progress of 60.
C33_Witness ==
    \E j \in JobIds :
        /\ Job(j).status = "failed" /\ Job(j).progress = 60
        /\ Job(j).form_id = None /\ Job(j).created_at = j
        /\ Job(j).user_id = "u1"

(***************************************************************************)
(* delete_form.                                                            *)
(***************************************************************************)
\* The step is a call of the operation op by a caller with a session user (a
\* step that leaves every upload where it is, is a call of some operation).
CallOf(op) ==
    /\ pc' = pc
    /\ api' # None
    /\ api'[1].op = op
    /\ api'[1].session # None

\* The list s without its i-th element.
Without(s, i) == SubSeq(s, 1, i - 1) \o SubSeq(s, i + 1, Len(s))

\* The stored forms with the given form id and owner.
OwnedForms(form_id, user_id) ==
    {i \in 1..Len(generated_forms) :
        /\ generated_forms[i].form_id = form_id
        /\ generated_forms[i].user_id = user_id}

\* C34: a delete_form call leaves the job records, their history and the
\* provider's forms as they are; with no stored form of the given form id
\* and the caller's user id it answers 404 and deletes nothing, otherwise it
\* answers 200 and removes exactly one such record; a Completed job has its
\* form_id whether or not its form record is still stored.
C34_DeleteFormFrame ==
    /\ [][CallOf("delete_form") =>
             LET hits == OwnedForms(api'[1].arg, api'[1].session[1])
             IN  /\ UNCHANGED <<processing_jobs, job_log, provider_forms, calls>>
                 /\ IF hits = {}
                    THEN /\ generated_forms' = generated_forms
                         /\ api'[1].response.status_code = 404
                    ELSE /\ api'[1].response.status_code = 200
                         /\ \E i \in hits :
                                generated_forms' = Without(generated_forms, i)]_vars
    /\ [](\A j \in JobIds :
             Job(j).status = "completed" => Job(j).form_id = Some(NewFormId(j)))

\* The owner deleted the form record of a Completed job, which still has
\* its form_id.
C34_Witness ==
    /\ api # None
    /\ api[1].op = "delete_form" /\ api[1].response.status_code = 200
    /\ \E j \in JobIds :
          /\ Job(j).status = "completed"
          /\ Job(j).form_id = Some(api[1].arg)
          /\ FormRecords(j) = {}

(***************************************************************************)
(* Failed jobs and form records.                                           *)
(***************************************************************************)
\* C35: a job whose status is Failed has no generated_forms record: its run
\* inserted none.
C35_FailedJobHasNoFormRecord ==
    \A j \in JobIds :
        Job(j).status = "failed" =>
            (FormRecords(j) = {} /\ calls[j].form_inserts = 0)

(***************************************************************************)
(* What a successful upload returns.                                       *)
(***************************************************************************)
\* C36: an upload that returned normally returned the job object as it was
\* built before the first insert (status processing, progress 0, no form_id,
\* no error_message), while the stored job is Completed/100 with its form_id.
C36_ReturnsJobAsBuilt ==
    \A r \in Runs :
        (pc[r] = "done" /\ response[r][1].status_code = 200) =>
            LET returned == response[r][1].body[1]
            IN  /\ returned = ProcessingJob(r, Val(require_auth(request[r].session)),
                                            request[r].filename)
                /\ returned.status = "processing" /\ returned.progress = 0
                /\ returned.form_id = None /\ returned.error_message = None
                /\ r \in JobIds
                /\ Job(r).status = "completed" /\ Job(r).progress = 100
                /\ Job(r).form_id = Some(NewFormId(r))
                /\ returned # Job(r)

\* An upload returned its job object, which says processing.
C36_Witness ==
    \E r \in Runs :
        /\ pc[r] = "done" /\ response[r][1].status_code = 200
        /\ response[r][1].body[1].status = "processing"
        /\ Job(r).status = "completed"

(***************************************************************************)
(* Records are scoped by their owner.                                      *)
(***************************************************************************)
\* The documents of a collection that the user owns, in stored order.
OwnedBy(coll, user_id) ==
    LET Mine(d) == d.user_id = user_id
    IN  SelectSeq(coll, Mine)

\* C37: the answer of get_job_status and of get_user_forms is a function of
\* the caller's own records alone: the caller's job with the given id or 404,
\* and the caller's forms, newest first; a delete_form call leaves every
\* record of another user stored, in the same order.
C37_RecordsScopedByOwner ==
    /\ [][CallOf("get_job_status") =>
             LET user == api'[1].session[1]
                 mine == OwnedBy(processing_jobs, user)
                 hits == {i \in 1..Len(mine) : mine[i].id = api'[1].arg}
             IN  IF hits = {}
                 THEN api'[1].response.status_code = 404
                 ELSE /\ api'[1].response.status_code = 200
                      /\ \E i \in hits : api'[1].response.body = Some(mine[i])
                      /\ api'[1].response.body[1].user_id = user]_vars
    /\ [][CallOf("get_user_forms") =>
             LET user == api'[1].session[1]
             IN  /\ api'[1].response.status_code = 200
                 /\ api'[1].response.body =
                        Some(Reverse(OwnedBy(generated_forms, user)))]_vars
    /\ [][CallOf("delete_form") =>
             \A user \in Users :
                 user # api'[1].session[1] =>
                     OwnedBy(generated_forms', user) = OwnedBy(generated_forms, user)]_vars

\* A user asked for the job of another user, and was told there is none.
C37_Witness ==
    /\ api # None
    /\ api[1].op = "get_job_status" /\ api[1].session # None
    /\ api[1].response.status_code = 404
    /\ api[1].arg \in JobIds
    /\ Job(api[1].arg).user_id # api[1].session[1]

(***************************************************************************)
(* Users and sessions.                                                     *)
(***************************************************************************)
\* C38: db.users holds at most one record per e-mail address, and every
\* session created for an address carries the id of the stored record of
\* that address, so two sessions of one address carry the same id.
C38_OneUserPerEmail ==
    /\ \A i, k \in 1..Len(users) : users[i].email = users[k].email => i = k
    /\ \A c \in Callbacks :
          callback[c].session # None =>
              \E i \in 1..Len(users) :
                  /\ users[i].email = callback[c].session[1].email
                  /\ users[i].id = callback[c].session[1].id
    /\ \A c, d \in Callbacks :
          (/\ callback[c].session # None /\ callback[d].session # None
           /\ callback[c].session[1].email = callback[d].session[1].email)
              => callback[c].session[1].id = callback[d].session[1].id

====
